---- MODULE Spec2Model ----
(***************************************************************************)
(* Model of src/main.py: the satellite tracker's resample of one satellite  *)
(* (generate_orbit_path and predict_passes, as startup_event calls them)    *)
(* against the remote store reached through supabase_insert and             *)
(* supabase_delete.  The two functions share no variable and fill different *)
(* tables, so a behaviour is one call of either, for any satellite, from    *)
(* any content earlier calls or earlier processes left in the store.        *)
(*                                                                          *)
(* Time is in whole seconds (jday is fed t.second, and every scanned        *)
(* instant is start + a multiple of the step, so differences of scanned     *)
(* instants are whole seconds).  isoformat() is injective and order         *)
(* preserving on UTC instants, so a stored timestamp is the instant.        *)
(* Elevations are in whole degrees.  The propagator is an input: each       *)
(* sgp4 call draws its status and what the position yields.                 *)
(***************************************************************************)
EXTENDS Integers, Sequences, FiniteSets, TLC

\* ------------------------------------------------------------- bounds
\* predict_passes scans [start, start + ScanSteps * PASS_STEP): the code's
\* horizon is hours = 24, 4320 steps.
ScanSteps == 4
\* generate_orbit_path visits TrackSteps instants: the code's window is
\* minutes = 30, 60 instants.
TrackSteps == 2

\* ---------------------------------------------------- program constants
MIN_ELEV == 10
PASS_STEP == 20
TRACK_STEP == 30
\* aos = None
None == -1

\* Two of the entries of SAT_INSTANCES, by the key of their id.
SAT_INSTANCES == <<"SAT1_ID", "SAT2_ID">>

SatIds == {SAT_INSTANCES[k] : k \in 1..Len(SAT_INSTANCES)}

\* ------------------------------------------------------------- inputs
\* datetime.now(timezone.utc) at the start of a run.
StartTimes == {0, 7}
\* Elevations elevation_angle can return: below, at and above MIN_ELEV.
Elevs == {2, 10, 15, 30}
\* What eci_to_latlon can return: (latitude, longitude, altitude_km).
Fixes == {<<10, 76, 400>>, <<-5, 120, 410>>}
\* What the store answers to a request: r.ok, not r.ok, or no answer at all
\* (requests raises ConnectionError).
Outcomes == {"ok", "rejected", "unreachable"}

\* sat_obj.sgp4(jd, fr) followed by elevation_angle(r): e is the status; for
\* e = 0, dom says whether elevation_angle's asin argument is in its domain
\* and el is the elevation then.
Sgp4Elev ==
    {[e |-> 1, dom |-> TRUE, el |-> 0]}
        \cup {[e |-> 0, dom |-> TRUE, el |-> x] : x \in Elevs}
        \cup {[e |-> 0, dom |-> FALSE, el |-> 0]}

\* sat_obj.sgp4(jd, fr) followed by eci_to_latlon(r).
Sgp4Fix ==
    {[e |-> 1, fix |-> <<0, 0, 0>>]} \cup {[e |-> 0, fix |-> f] : f \in Fixes}

\* --------------------------------------------------------------- rows
PassRowMutDuration(sid, a, l, m) ==
    [satellite_id |-> sid, aos |-> a, los |-> l, max_elevation_deg |-> m,
     duration_sec |-> l - a + PASS_STEP]

PassRowMutLosNext(sid, a, l, m) ==
    [satellite_id |-> sid, aos |-> a, los |-> l + PASS_STEP,
     max_elevation_deg |-> m, duration_sec |-> l + PASS_STEP - a]

PassRowMutAosPrev(sid, a, l, m) ==
    [satellite_id |-> sid, aos |-> a - PASS_STEP, los |-> l,
     max_elevation_deg |-> m, duration_sec |-> l - (a - PASS_STEP)]

\* The record predict_passes inserts into passes.
PassRow(sid, a, l, m) ==
    [satellite_id |-> sid, aos |-> a, los |-> l, max_elevation_deg |-> m,
     duration_sec |-> l - a]

\* The record generate_orbit_path inserts into orbit_path.
OrbitRow(sid, fix, ts) ==
    [satellite_id |-> sid, latitude |-> fix[1], longitude |-> fix[2],
     altitude_km |-> fix[3], timestamp |-> ts]

\* The record update_live_state inserts into satellite_state.
LiveRow(sid, fix, speed, ts) ==
    [satellite_id |-> sid, latitude |-> fix[1], longitude |-> fix[2],
     altitude_km |-> fix[3], velocity_kms |-> speed, timestamp |-> ts]

NoRow == [satellite_id |-> "none"]

\* Rows an earlier run (of this or of an earlier process) left in the store.
OldPassRow(sid) == PassRow(sid, -400, -340, 30)
OldOrbitRow(sid) == OrbitRow(sid, <<0, 0, 400>>, -400)

\* Rows an earlier run left that a run over the same instants produces again.
SamePassRows(sid) == <<PassRow(sid, 0, 20, 15), PassRow(sid, 40, 60, 30)>>
SameOrbitRows(sid) ==
    <<OrbitRow(sid, <<10, 76, 400>>, 0), OrbitRow(sid, <<10, 76, 400>>, 30)>>

\* What the store can hold when the process starts: nothing, or what an
\* earlier process stored for every satellite.
PriorStores ==
    {[passes |-> << >>, orbit_path |-> << >>, satellite_state |-> << >>],
     [passes |-> [k \in 1..Len(SAT_INSTANCES) |-> OldPassRow(SAT_INSTANCES[k])],
      orbit_path |-> [k \in 1..Len(SAT_INSTANCES) |-> OldOrbitRow(SAT_INSTANCES[k])],
      satellite_state |-> << >>],
     [passes |-> SamePassRows(SAT_INSTANCES[1]) \o SamePassRows(SAT_INSTANCES[2]),
      orbit_path |-> SameOrbitRows(SAT_INSTANCES[1]) \o SameOrbitRows(SAT_INSTANCES[2]),
      satellite_state |-> << >>]}

\* -------------------------------------------------------------- store
SupabaseInsertMutRetry(d, table, data, outcome) ==
    IF outcome = "unreachable" THEN d ELSE [d EXCEPT ![table] = Append(@, data)]

SupabaseInsertMutBatch(d, table, data, outcome) ==
    IF outcome = "ok" THEN [d EXCEPT ![table] = (@ \o <<data>>) \o <<data>>] ELSE d

\* supabase_insert: the store appends the row when it accepts the request.
SupabaseInsert(d, table, data, outcome) ==
    IF outcome = "ok" THEN [d EXCEPT ![table] = Append(@, data)] ELSE d

SupabaseDeleteMutNoop(d, table, column, value, outcome) == d

SupabaseDeleteMutAll(d, table, column, value, outcome) ==
    IF outcome = "ok" THEN [d EXCEPT ![table] = << >>] ELSE d

\* supabase_delete: the store drops the rows with row[column] = value when
\* it accepts the request.
SupabaseDelete(d, table, column, value, outcome) ==
    IF outcome = "ok"
    THEN [d EXCEPT ![table] = SelectSeq(@, LAMBDA row : row[column] # value)]
    ELSE d

\* requests.post / requests.delete raise when the store cannot be reached;
\* neither helper catches it.
Raises(outcome) == outcome = "unreachable"

\* ---------------------------------------------------------------- log
\* One entry per call a run makes, in order.
LogDelete(table, value, outcome) ==
    [op |-> "delete", table |-> table, key |-> value, outcome |-> outcome,
     t |-> 0, e |-> 0, dom |-> TRUE, el |-> 0, row |-> NoRow]

LogInsert(table, row, outcome) ==
    [op |-> "insert", table |-> table, key |-> row.satellite_id,
     outcome |-> outcome,
     t |-> 0, e |-> 0, dom |-> TRUE, el |-> 0, row |-> row]

LogSgp4(ts, e, dom, el) ==
    [op |-> "sgp4", table |-> "", key |-> "", outcome |-> "",
     t |-> ts, e |-> e, dom |-> dom, el |-> el, row |-> NoRow]

\* ----------------------------------------------------------- geometry
\* Lengths are in units of 100 km, so that every product below stays far
\* inside 32 bits. EARTH_RADIUS is 6378.137 km; GS_ALT is added to it as it
\* is, so the configured 0 adds nothing and a configured 100 adds one unit.
EARTH_RADIUS == 64
GsAlts == {0, 1}

\* The ground station is on the equator at longitude 0 (GS_LAT = GS_LON = 0):
\* xg = EARTH_RADIUS + GS_ALT, yg = zg = 0.
StationOf(alt) == <<EARTH_RADIUS + alt, 0, 0>>

\* Positions the propagator returns: on and around the station's zenith line,
\* at the station, over the horizon and behind the Earth.
Positions ==
    {<<x, y, z>> : x \in {-68, 0, 60, 64, 65, 66, 68, 72},
                   y \in {-30, -2, 0, 2, 68},
                   z \in {0, 2}}

\* elevation_angle(r): the result is asin(dot / (range_norm * EARTH_RADIUS))
\* in degrees, kept here as dot and range_norm squared. The division raises
\* when range_norm is 0, asin raises when its argument is outside [-1, 1],
\* that is when dot^2 > range_norm^2 * EARTH_RADIUS^2.
ElevationAngle(r, alt) ==
    LET g == StationOf(alt)
        rx == r[1] - g[1]
        ry == r[2] - g[2]
        rz == r[3] - g[3]
        range2 == rx * rx + ry * ry + rz * rz
        dot == rx * g[1] + ry * g[2] + rz * g[3]
    IN  IF range2 = 0
        THEN [exc |-> "ZeroDivisionError", dot |-> dot, range2 |-> range2]
        ELSE IF dot * dot > range2 * EARTH_RADIUS * EARTH_RADIUS
        THEN [exc |-> "ValueError", dot |-> dot, range2 |-> range2]
        ELSE [exc |-> "none", dot |-> dot, range2 |-> range2]

NoCall == [st |-> "none"]

\* ------------------------------------------------------- live updates
\* Updates a behaviour makes at most.
MaxUpdates == 3

\* Velocities the propagator returns, km/s.
Velocities == {<<2, 3, 6>>}

\* math.sqrt(v[0]**2 + v[1]**2 + v[2]**2)
Speed(v) ==
    CHOOSE s \in 0..16 : s * s = v[1] * v[1] + v[2] * v[2] + v[3] * v[3]

UpdateLiveStateMutFabricate(d, sid, p, v, o, ts) ==
    LET row == LiveRow(sid, p.fix, Speed(v), ts)
    IN  [db |-> SupabaseInsert(d, "satellite_state", row, o),
         calls |-> <<LogInsert("satellite_state", row, o)>>,
         raised |-> Raises(o)]

\* update_live_state(sat_obj, sat_id) at instant ts: the store after it, the
\* store calls it made, and whether an exception left it.
UpdateLiveState(d, sid, p, v, o, ts) ==
    LET row == LiveRow(sid, p.fix, Speed(v), ts)
    IN  IF p.e # 0
        THEN [db |-> d, calls |-> << >>, raised |-> FALSE]
        ELSE [db |-> SupabaseInsert(d, "satellite_state", row, o),
              calls |-> <<LogInsert("satellite_state", row, o)>>,
              raised |-> Raises(o)]

NoThreads == [auto |-> 0, man |-> 0, n |-> 0, calls |-> << >>, hist |-> << >>]

\* A propagation of generate_orbit_path, with the fix it led to.
LogFix(ts, e, fix) ==
    [op |-> "sgp4", table |-> "", key |-> "", outcome |-> "",
     t |-> ts, e |-> e, dom |-> TRUE, el |-> 0, row |-> NoRow, fix |-> fix]

\* No other call is under way.
NoPeer == [sat |-> "none"]

\* No earlier run of the process is on record.
NoFirst == [n |-> 0]

\* -------------------------------------------------------------- state
VARIABLES
    db,        \* the remote store: table name -> rows in insertion order
    sat,       \* s["id"] of the satellite startup_event is processing
    pc,        \* where the call startup_event makes is
    exc,       \* the exception that ended it, if any
    start,     \* datetime.now() read by the running function
    i,         \* generate_orbit_path: the loop variable
    t,         \* predict_passes: the scanned instant
    end,       \* predict_passes: start + horizon
    in_pass,   \* predict_passes: the detector is InPass
    aos,       \* predict_passes: the instant the current pass began
    max_el,    \* predict_passes: the peak elevation of the current pass
    log,       \* history: the calls of the running function, in order
    prior,     \* history: db when the running function was entered
    exits,     \* history: InPass -> Idle transitions of the running scan
    geo,       \* elevation_angle: its configuration, argument and result
    live,      \* the threads that call update_live_state, and their calls
    first,     \* history: the run of the process before this one
    peer       \* the call under way for another satellite, while it waits

vars == <<db, sat, pc, exc, start, i, t, end, in_pass, aos, max_el, log, prior,
          exits, geo, live, first, peer>>

\* What the calls startup_event makes leave alone.
aside == <<geo, live, first, peer>>

scanVars == <<t, end, in_pass, aos, max_el, exits>>

Init ==
    /\ db \in PriorStores
    /\ sat \in SatIds
    /\ pc = "startup"
    /\ exc = "none"
    /\ start = 0
    /\ i = 0
    /\ t = 0
    /\ end = 0
    /\ in_pass = FALSE
    /\ aos = None
    /\ max_el = 0
    /\ log = << >>
    /\ prior = db
    /\ exits = 0
    /\ geo = NoCall
    /\ live = NoThreads
    /\ first = NoFirst
    /\ peer = NoPeer

\* ------------------------------------------------- generate_orbit_path
OrbitClearTableMutPasses == "passes"

\* The table generate_orbit_path clears.
OrbitClearTable == "orbit_path"

\* supabase_delete("orbit_path", ...), start = now, and the for loop entered.
GenerateOrbitPathBegin ==
    /\ pc = "startup"
    /\ \E now \in StartTimes, o \in Outcomes :
           /\ db' = SupabaseDelete(db, OrbitClearTable, "satellite_id", sat, o)
           /\ log' = <<LogDelete(OrbitClearTable, sat, o)>>
           /\ prior' = db
           /\ IF Raises(o)
              THEN /\ pc' = "raised"
                   /\ exc' = "ConnectionError"
                   /\ UNCHANGED <<start, i>>
              ELSE /\ pc' = "orbit"
                   /\ start' = now
                   /\ i' = 0
                   /\ UNCHANGED exc
    /\ UNCHANGED <<sat, scanVars, aside>>

\* for i in range(0, minutes * 60, 30): the instants i visits.
InWindow(k) == k < TrackSteps * TRACK_STEP

\* One iteration of the for loop.
OrbitStep ==
    /\ pc = "orbit"
    /\ InWindow(i)
    /\ \E p \in Sgp4Fix, o \in Outcomes :
           LET ts == start + i
               row == OrbitRow(sat, p.fix, ts)
               done == IF InWindow(i + TRACK_STEP) THEN "orbit" ELSE "orbit_done"
           IN  IF p.e # 0
               THEN /\ o = "ok"
                    /\ log' = Append(log, LogFix(ts, p.e, p.fix))
                    /\ i' = i + TRACK_STEP
                    /\ pc' = done
                    /\ UNCHANGED <<db, exc>>
               ELSE /\ db' = SupabaseInsert(db, "orbit_path", row, o)
                    /\ log' = log \o <<LogFix(ts, p.e, p.fix),
                                       LogInsert("orbit_path", row, o)>>
                    /\ IF Raises(o)
                       THEN /\ pc' = "raised"
                            /\ exc' = "ConnectionError"
                            /\ UNCHANGED i
                       ELSE /\ i' = i + TRACK_STEP
                            /\ pc' = done
                            /\ UNCHANGED exc
    /\ UNCHANGED <<sat, start, prior, scanVars, aside>>

\* ------------------------------------------------------ predict_passes
\* supabase_delete("passes", ...), t = now, end, and the detector's locals.
PredictPassesBegin ==
    /\ pc = "startup"
    /\ \E now \in StartTimes, o \in Outcomes :
           /\ db' = SupabaseDelete(db, "passes", "satellite_id", sat, o)
           /\ log' = <<LogDelete("passes", sat, o)>>
           /\ prior' = db
           /\ IF Raises(o)
              THEN /\ pc' = "raised"
                   /\ exc' = "ConnectionError"
                   /\ UNCHANGED <<start, scanVars>>
              ELSE /\ pc' = "scan"
                   /\ start' = now
                   /\ t' = now
                   /\ end' = now + ScanSteps * PASS_STEP
                   /\ in_pass' = FALSE
                   /\ aos' = None
                   /\ max_el' = 0
                   /\ exits' = 0
                   /\ UNCHANGED exc
    /\ UNCHANGED <<sat, i, aside>>

AboveThresholdMutGeq(el) == el >= MIN_ELEV

\* el > MIN_ELEV
AboveThreshold(el) == el > MIN_ELEV

ScanBranchMutFailEnds(e, el, ip) ==
    IF e # 0 THEN (IF ip THEN "exit" ELSE "none")
    ELSE IF AboveThreshold(el) /\ ~ip THEN "enter"
    ELSE IF AboveThreshold(el) THEN "stay"
    ELSE IF ~AboveThreshold(el) /\ ip THEN "exit"
    ELSE "none"

ScanBranchMutExitAlways(e, el, ip) ==
    IF e # 0 THEN "skip"
    ELSE IF AboveThreshold(el) /\ ~ip THEN "enter"
    ELSE IF AboveThreshold(el) THEN "stay"
    ELSE "exit"

\* The branch one iteration of the while loop takes: the e != 0 test, then
\* the if / elif chain.
ScanBranch(e, el, ip) ==
    IF e # 0 THEN "skip"
    ELSE IF AboveThreshold(el) /\ ~ip THEN "enter"
    ELSE IF AboveThreshold(el) THEN "stay"
    ELSE IF ~AboveThreshold(el) /\ ip THEN "exit"
    ELSE "none"

MaxOnEntryMutKeep(old, el) == IF el > old THEN el ELSE old

\* max_el = el
MaxOnEntry(old, el) == el

MaxInPassMutFirst(old, el) == old

\* max_el = max(max_el, el)
MaxInPass(old, el) == IF el > old THEN el ELSE old

\* One iteration of the while loop.
ScanStep ==
    /\ pc = "scan"
    /\ t < end
    /\ \E p \in Sgp4Elev, o \in Outcomes :
           LET br == ScanBranch(p.e, p.el, in_pass)
               row == PassRow(sat, aos, t, max_el)
               probe == LogSgp4(t, p.e, p.dom, p.el)
               more == IF t + PASS_STEP < end THEN "scan" ELSE "passes_done"
           IN  IF p.e = 0 /\ ~p.dom
               THEN \* elevation_angle raises
                    /\ o = "ok"
                    /\ log' = Append(log, probe)
                    /\ pc' = "raised"
                    /\ exc' = "ValueError"
                    /\ UNCHANGED <<db, scanVars>>
               ELSE IF br = "exit"
               THEN /\ db' = SupabaseInsert(db, "passes", row, o)
                    /\ log' = log \o <<probe, LogInsert("passes", row, o)>>
                    /\ IF Raises(o)
                       THEN /\ pc' = "raised"
                            /\ exc' = "ConnectionError"
                            /\ UNCHANGED scanVars
                       ELSE /\ in_pass' = FALSE
                            /\ exits' = exits + (IF in_pass THEN 1 ELSE 0)
                            /\ t' = t + PASS_STEP
                            /\ pc' = more
                            /\ UNCHANGED <<exc, end, aos, max_el>>
               ELSE /\ o = "ok"
                    /\ log' = Append(log, probe)
                    /\ in_pass' = (IF br = "enter" THEN TRUE ELSE in_pass)
                    /\ aos' = (IF br = "enter" THEN t ELSE aos)
                    /\ max_el' = (IF br = "enter" THEN MaxOnEntry(max_el, p.el)
                                  ELSE IF br = "stay" THEN MaxInPass(max_el, p.el)
                                  ELSE max_el)
                    /\ t' = t + PASS_STEP
                    /\ pc' = more
                    /\ UNCHANGED <<db, exc, end, exits>>
    /\ UNCHANGED <<sat, start, i, prior, aside>>

\* --------------------------------------------------------------- spec
Next ==
    \/ GenerateOrbitPathBegin
    \/ OrbitStep
    \/ PredictPassesBegin
    \/ ScanStep

Spec == Init /\ [][Next]_vars

\* ------------------------------------------------------ elevation_angle
\* el = elevation_angle(r) in predict_passes, for one position and one
\* configured station altitude.
InitElev ==
    /\ db \in PriorStores
    /\ sat \in SatIds
    /\ pc = "startup"
    /\ exc = "none"
    /\ start = 0
    /\ i = 0
    /\ t = 0
    /\ end = 0
    /\ in_pass = FALSE
    /\ aos = None
    /\ max_el = 0
    /\ log = << >>
    /\ prior = db
    /\ exits = 0
    /\ geo \in {[st |-> "called", r |-> r, alt |-> a] : r \in Positions, a \in GsAlts}
    /\ live = NoThreads
    /\ first = NoFirst
    /\ peer = NoPeer

\* The call returns the elevation, or raises out of predict_passes.
ElevationAngleCall ==
    /\ geo.st = "called"
    /\ LET res == ElevationAngle(geo.r, geo.alt)
       IN  geo' = [st |-> IF res.exc = "none" THEN "returned" ELSE "raised",
                   r |-> geo.r, alt |-> geo.alt, res |-> res]
    /\ UNCHANGED <<db, sat, pc, exc, start, i, log, prior, scanVars, live, first, peer>>

NextElev == ElevationAngleCall

SpecElev == InitElev /\ [][NextElev]_vars

\* --------------------------------------------------- update_live_state
\* startup_event has returned: the store holds what the startup calls left,
\* the auto_update_loop thread is at the first satellite of its for loop and
\* no /update request is being served.
InitLive ==
    /\ db \in PriorStores
    /\ sat = SAT_INSTANCES[1]
    /\ pc = "startup"
    /\ exc = "none"
    /\ start = 0
    /\ i = 0
    /\ t = 0
    /\ end = 0
    /\ in_pass = FALSE
    /\ aos = None
    /\ max_el = 0
    /\ log = << >>
    /\ prior = db
    /\ exits = 0
    /\ geo = NoCall
    /\ live = [auto |-> 1, man |-> 0, n |-> 0, calls |-> << >>, hist |-> << >>]
    /\ first = NoFirst
    /\ peer = NoPeer

\* One call of update_live_state by thread `by` for SAT_INSTANCES[k]; `rest`
\* is where the thread's for loop goes when the call returns.
LiveCall(by, k, rest) ==
    /\ live.n < MaxUpdates
    /\ \E p \in Sgp4Fix, v \in Velocities, o \in Outcomes :
           LET sid == SAT_INSTANCES[k]
               res == UpdateLiveState(db, sid, p, v, o, live.n)
               pos == IF res.raised THEN 0 ELSE rest
           IN  /\ p.e # 0 => o = "ok"
               /\ db' = res.db
               /\ live' = [live EXCEPT
                              ![by] = pos,
                              !.n = @ + 1,
                              !.calls = @ \o res.calls,
                              !.hist = Append(@, [by |-> by, sid |-> sid, e |-> p.e,
                                                  raised |-> res.raised])]
    /\ UNCHANGED <<sat, pc, exc, start, i, log, prior, scanVars, geo, first, peer>>

\* auto_update_loop: the next call of its for loop; after the last satellite
\* it sleeps and starts over. An exception ends the thread.
AutoUpdate ==
    /\ live.auto > 0
    /\ LiveCall("auto", live.auto,
                IF live.auto < Len(SAT_INSTANCES) THEN live.auto + 1 ELSE 1)

\* GET /update arrives.
ManualRequest ==
    /\ live.man = 0
    /\ live.n < MaxUpdates
    /\ live' = [live EXCEPT !.man = 1]
    /\ UNCHANGED <<db, sat, pc, exc, start, i, log, prior, scanVars, geo, first, peer>>

\* manual_update: the next call of its for loop; after the last satellite, or
\* on an exception, the request is over.
ManualUpdate ==
    /\ live.man > 0
    /\ LiveCall("man", live.man,
                IF live.man < Len(SAT_INSTANCES) THEN live.man + 1 ELSE 0)

NextLive ==
    \/ AutoUpdate
    \/ ManualRequest
    \/ ManualUpdate

SpecLive == InitLive /\ [][NextLive]_vars

\* ------------------------------------------------------- a second run
\* The process is started, a call of generate_orbit_path or predict_passes
\* returns, and the process is started again at the same instant of the
\* satellite's orbit: the same call meets the same propagator results.
InitTwice == Init /\ sat = SAT_INSTANCES[1]

\* The propagations of a call log.
SamplesOf(l) == SelectSeq(l, LAMBDA en : en.op = "sgp4")

\* The running call is the one of the first run, with its start instant and,
\* sample by sample, its propagator results.
Replays ==
    first.n = 1 =>
        /\ log # << >> => log[1].table = first.log[1].table
        /\ pc \in {"orbit", "scan"} => start = first.start
        /\ \A k \in 1..Len(SamplesOf(log)) :
               SamplesOf(log)[k] = SamplesOf(first.log)[k]

\* The process is started again after a call that returned.
RunAgain ==
    /\ first.n = 0
    /\ pc \in {"orbit_done", "passes_done"}
    /\ first' = [n |-> 1, log |-> log, db |-> db, start |-> start]
    /\ pc' = "startup"
    /\ log' = << >>
    /\ UNCHANGED <<db, sat, exc, start, i, prior, scanVars, geo, live, peer>>

NextTwice ==
    \/ GenerateOrbitPathBegin /\ Replays'
    \/ OrbitStep /\ Replays'
    \/ PredictPassesBegin /\ Replays'
    \/ ScanStep /\ Replays'
    \/ RunAgain

SpecTwice == InitTwice /\ [][NextTwice]_vars

\* ------------------------------------------------------ two satellites
\* The calls for two satellites, each with its own locals, take their steps
\* in any order on the one store. The variables hold the call that is
\* running and peer holds the other one.
Running ==
    [sat |-> sat, pc |-> pc, exc |-> exc, start |-> start, i |-> i, t |-> t,
     end |-> end, in_pass |-> in_pass, aos |-> aos, max_el |-> max_el,
     log |-> log, prior |-> prior, exits |-> exits]

InitPair ==
    /\ db \in PriorStores
    /\ Len(db.passes) > Len(SAT_INSTANCES)
    /\ sat = SAT_INSTANCES[1]
    /\ pc = "startup"
    /\ exc = "none"
    /\ start = 0
    /\ i = 0
    /\ t = 0
    /\ end = 0
    /\ in_pass = FALSE
    /\ aos = None
    /\ max_el = 0
    /\ log = << >>
    /\ prior = db
    /\ exits = 0
    /\ geo = NoCall
    /\ live = NoThreads
    /\ first = NoFirst
    /\ peer = [Running EXCEPT !.sat = SAT_INSTANCES[2]]

\* The running call waits and the waiting one runs.
Switch ==
    /\ peer # NoPeer
    /\ peer' = Running
    /\ sat' = peer.sat
    /\ pc' = peer.pc
    /\ exc' = peer.exc
    /\ start' = peer.start
    /\ i' = peer.i
    /\ t' = peer.t
    /\ end' = peer.end
    /\ in_pass' = peer.in_pass
    /\ aos' = peer.aos
    /\ max_el' = peer.max_el
    /\ log' = peer.log
    /\ prior' = peer.prior
    /\ exits' = peer.exits
    /\ UNCHANGED <<db, geo, live, first>>

\* The inputs of the two calls: every call starts at instant 0; a
\* propagation of generate_orbit_path fails or gives the first fix; a
\* propagation of predict_passes succeeds, with elevation 2 or 30.
PairInputs ==
    /\ start = 0
    /\ \A k \in 1..Len(log) :
           log[k].op = "sgp4"
               => IF log[1].table = "orbit_path"
                  THEN log[k].e = 0 => log[k].fix = <<10, 76, 400>>
                  ELSE log[k].e = 0 /\ log[k].dom /\ log[k].el \in {2, 30}

NextPair ==
    \/ GenerateOrbitPathBegin /\ PairInputs'
    \/ OrbitStep /\ PairInputs'
    \/ PredictPassesBegin /\ PairInputs'
    \/ ScanStep /\ PairInputs'
    \/ Switch

SpecPair == InitPair /\ [][NextPair]_vars

\* ------------------------------------------------- reading the history
\* The propagations of the running function, in order.
Samples == SelectSeq(log, LAMBDA en : en.op = "sgp4")

\* The rows the running function handed to supabase_insert for a table.
InsertsInto(tbl) == SelectSeq(log, LAMBDA en : en.op = "insert" /\ en.table = tbl)

\* The PassRecords the running scan has emitted, in order.
Emitted == [k \in 1..Len(InsertsInto("passes")) |-> InsertsInto("passes")[k].row]

\* The last propagation.
LastSample == Samples[Len(Samples)]

\* The step propagated a sample and elevation_angle returned its elevation.
Scanned == pc = "scan" /\ Len(Samples') = Len(Samples) + 1

ScannedOk == Scanned /\ LastSample'.e = 0 /\ LastSample'.dom

SetMax(S) == CHOOSE m \in S : \A x \in S : x <= m

\* The elevations of the successful samples at instants in [from, to).
ElevationsIn(from, to) ==
    {Samples[k].el : k \in {j \in 1..Len(Samples) :
        /\ Samples[j].e = 0
        /\ Samples[j].dom
        /\ from <= Samples[j].t
        /\ Samples[j].t < to}}

\* ------------------------------------------------------------- claims
\* C1: a step of the scan in which the detector is Idle and the sample is
\* propagated with an elevation strictly above MIN_ELEV moves the detector to
\* InPass with aos = the sample's instant and max_el = the sample's elevation
\* (whatever max_el held before), and emits nothing.
C1_IdleToInPass ==
    [][(ScannedOk /\ ~in_pass /\ LastSample'.el > MIN_ELEV)
          => /\ in_pass'
             /\ aos' = LastSample'.t
             /\ aos' = t
             /\ max_el' = LastSample'.el
             /\ Emitted' = Emitted
             /\ db' = db]_vars

\* A second pass has begun at the last sample, below the peak of the first.
C1_Witness ==
    /\ pc = "scan"
    /\ in_pass
    /\ Len(Emitted) = 1
    /\ LastSample.t = aos
    /\ LastSample.el = max_el
    /\ Emitted[1].max_elevation_deg > max_el

\* C2: a step of the scan in which the detector is InPass and the sample is
\* propagated with an elevation at or below MIN_ELEV emits exactly one
\* PassRecord (the aos of entry, los = the sample's instant, the accumulated
\* max_el, duration_sec = los - aos) and leaves the detector Idle; no other
\* step of the scan emits a PassRecord.
C2_InPassToIdle ==
    [][Scanned
          => IF LastSample'.e = 0 /\ LastSample'.dom /\ in_pass
                /\ LastSample'.el <= MIN_ELEV
             THEN /\ Emitted' = Append(Emitted,
                        [satellite_id |-> sat, aos |-> aos, los |-> t,
                         max_elevation_deg |-> max_el, duration_sec |-> t - aos])
                  /\ ~in_pass'
             ELSE Emitted' = Emitted]_vars

\* C3: every emitted PassRecord has los > aos, duration_sec = los - aos and
\* max_elevation_deg >= MIN_ELEV.
C3_RecordInvariant ==
    \A k \in 1..Len(Emitted) :
        /\ Emitted[k].los > Emitted[k].aos
        /\ Emitted[k].duration_sec = Emitted[k].los - Emitted[k].aos
        /\ Emitted[k].max_elevation_deg >= MIN_ELEV

\* A record was emitted for a pass during which a propagation failed.
C3_Witness ==
    \E k \in 1..Len(Emitted) :
        /\ Emitted[k].duration_sec = 3 * PASS_STEP
        /\ \E j \in 1..Len(Samples) :
               /\ Samples[j].e # 0
               /\ Samples[j].t > Emitted[k].aos
               /\ Samples[j].t < Emitted[k].los

\* C4: every emitted PassRecord's max_elevation_deg is the greatest elevation
\* among the successful samples at instants from its aos up to, not
\* including, its los.
C4_MaxElevation ==
    \A k \in 1..Len(Emitted) :
        /\ ElevationsIn(Emitted[k].aos, Emitted[k].los) # {}
        /\ Emitted[k].max_elevation_deg
               = SetMax(ElevationsIn(Emitted[k].aos, Emitted[k].los))

\* A record of a pass of three samples that peaked at the middle one.
C4_Witness ==
    \E k \in 1..Len(Emitted) :
        /\ Emitted[k].duration_sec = 3 * PASS_STEP
        /\ \E j \in 1..Len(Samples) :
               /\ Samples[j].t = Emitted[k].aos
               /\ Samples[j].el < Emitted[k].max_elevation_deg
        /\ \E j \in 1..Len(Samples) :
               /\ Samples[j].t = Emitted[k].los - PASS_STEP
               /\ Samples[j].e = 0
               /\ Samples[j].el < Emitted[k].max_elevation_deg

\* C5: a sample propagated with an elevation of exactly MIN_ELEV never starts
\* a pass (Idle stays Idle, nothing is emitted) and never keeps one alive: it
\* emits the record of the pass with los at that sample, and the scan does not
\* go on InPass.
C5_StrictThreshold ==
    [][(ScannedOk /\ LastSample'.el = MIN_ELEV)
          => IF in_pass
             THEN /\ Len(Emitted') = Len(Emitted) + 1
                  /\ Emitted'[Len(Emitted')].los = LastSample'.t
                  /\ Emitted'[Len(Emitted')].aos = aos
                  /\ ~(in_pass' /\ pc' \in {"scan", "passes_done"})
             ELSE /\ ~in_pass'
                  /\ aos' = aos
                  /\ max_el' = max_el
                  /\ Emitted' = Emitted]_vars

\* A sample at exactly MIN_ELEV was passed over while Idle, and a later one
\* ended a pass.
C5_Witness ==
    /\ Len(Emitted) = 1
    /\ ~in_pass
    /\ LastSample.el = MIN_ELEV
    /\ LastSample.e = 0
    /\ LastSample.t = Emitted[1].los
    /\ \E j \in 1..Len(Samples) :
           /\ Samples[j].e = 0
           /\ Samples[j].dom
           /\ Samples[j].el = MIN_ELEV
           /\ Samples[j].t < Emitted[1].aos

\* C6: while the scan runs and when its window has ended, the number of
\* PassRecords emitted is the number of InPass -> Idle transitions; a scan
\* that ends InPass has emitted no record for the excursion it is in (every
\* record it emitted ended at or before that excursion began).
C6_UnfinishedPassDiscarded ==
    /\ pc \in {"scan", "passes_done"} => Len(Emitted) = exits
    /\ (pc = "passes_done" /\ in_pass)
           => \A k \in 1..Len(Emitted) :
                  /\ Emitted[k].aos # aos
                  /\ Emitted[k].los < aos

\* The window ended InPass, the threshold first crossed again at the final
\* scanned sample, after one completed pass.
C6_Witness ==
    /\ pc = "passes_done"
    /\ in_pass
    /\ aos = end - PASS_STEP
    /\ LastSample.t = aos
    /\ Len(Emitted) = 1
    /\ exits = 1

\* C7: a step of the scan whose propagation has a nonzero status leaves
\* in_pass, aos and max_el as they were, emits nothing, writes nothing and
\* moves the scan on by one step; so a pass spans a failed sample, and a scan
\* whose samples all failed ends with no PassRecord emitted.
C7_FailedSampleSkipped ==
    [][(Scanned /\ LastSample'.e # 0)
          => /\ in_pass' = in_pass
             /\ aos' = aos
             /\ max_el' = max_el
             /\ Emitted' = Emitted
             /\ db' = db
             /\ exc' = exc
             /\ t' = t + PASS_STEP
             /\ pc' = (IF t' < end THEN "scan" ELSE "passes_done")
             /\ (\A j \in 1..Len(Samples') : Samples'[j].e # 0)
                    => (~in_pass' /\ Emitted' = << >>)]_vars

\* The scan is InPass and its last sample failed after the pass began.
C7_Witness ==
    /\ pc = "scan"
    /\ in_pass
    /\ LastSample.e # 0
    /\ LastSample.t > aos
    /\ Emitted = << >>

\* C8: no outcome of an insert or delete call stops the running function,
\* and a write that failed is not sent again.
C8_PersistenceNeverStops ==
    /\ exc # "ConnectionError"
    /\ \A k \in 1..(Len(log) - 1) :
           (log[k].op = "insert" /\ log[k].outcome # "ok")
               => ~(log[k + 1].op = "insert" /\ log[k + 1].row = log[k].row)

\* C9: the first call of a run is the delete of the satellite's rows in the
\* table the run fills (orbit_path for generate_orbit_path, passes for
\* predict_passes); every propagation and insert of the run comes after it,
\* and the run issues no other delete.
C9_DeleteOnceFirst ==
    log # << >>
        => /\ log[1].op = "delete"
           /\ log[1].key = sat
           /\ pc \in {"orbit", "orbit_done"} => log[1].table = "orbit_path"
           /\ pc \in {"scan", "passes_done"} => log[1].table = "passes"
           /\ \A k \in 2..Len(log) :
                  /\ log[k].op # "delete"
                  /\ log[k].op = "insert"
                         => (log[k].table = log[1].table /\ log[k].key = sat)

\* A run of generate_orbit_path has propagated and inserted after its delete.
C9_Witness ==
    /\ pc = "orbit_done"
    /\ Len(InsertsInto("orbit_path")) = TrackSteps
    /\ Len(Samples) = TrackSteps

\* The satellite's rows of a table, in the store and before the run.
RowsOf(d, tbl) == SelectSeq(d[tbl], LAMBDA row : row.satellite_id = sat)

\* The rows of the run the store accepted.
Accepted(tbl) ==
    LET ok == SelectSeq(InsertsInto(tbl), LAMBDA en : en.outcome = "ok")
    IN  [k \in 1..Len(ok) |-> ok[k].row]

\* C10 as stated: once a run has completed, the satellite's stored rows are
\* exactly the rows of that run (those the store accepted), whatever the
\* store held before and whatever the delete call's outcome.
C10_FullReplaceAnyOutcome ==
    /\ pc = "orbit_done" => RowsOf(db, "orbit_path") = Accepted("orbit_path")
    /\ pc = "passes_done" => RowsOf(db, "passes") = Accepted("passes")

\* C10 amended: once a run has completed, the satellite's stored rows are the
\* rows of that run the store accepted, and no earlier row, when the store
\* accepted the delete; when it rejected the delete, they are the rows stored
\* before the run followed by the rows of that run the store accepted.
C10_FullReplaceWhenDeleteAccepted ==
    /\ pc = "orbit_done"
           => RowsOf(db, "orbit_path")
                  = (IF log[1].outcome = "ok" THEN << >>
                     ELSE RowsOf(prior, "orbit_path")) \o Accepted("orbit_path")
    /\ pc = "passes_done"
           => RowsOf(db, "passes")
                  = (IF log[1].outcome = "ok" THEN << >>
                     ELSE RowsOf(prior, "passes")) \o Accepted("passes")

\* A completed predict_passes replaced a stored pass by the pass it found.
C10_Witness ==
    /\ pc = "passes_done"
    /\ log[1].outcome = "ok"
    /\ RowsOf(prior, "passes") # << >>
    /\ Len(Accepted("passes")) = 1
    /\ RowsOf(db, "passes") = Accepted("passes")

\* C11: every PassRecord is handed to supabase_insert right after the
\* propagation of its LOS sample (a successful sample at or below MIN_ELEV at
\* the instant the record gives as los), before any other propagation; and the
\* records of a run are in chronological order, each aos and los strictly
\* later than those of the record before.
C11_EmittedAtLosInOrder ==
    /\ \A k \in 1..Len(log) :
           (log[k].op = "insert" /\ log[k].table = "passes")
               => /\ k > 1
                  /\ log[k - 1].op = "sgp4"
                  /\ log[k - 1].e = 0
                  /\ log[k - 1].el <= MIN_ELEV
                  /\ log[k - 1].t = log[k].row.los
    /\ \A k \in 1..(Len(Emitted) - 1) :
           /\ Emitted[k + 1].aos > Emitted[k].aos
           /\ Emitted[k + 1].los > Emitted[k].los

\* A scan that returned after emitting two records, the second one at its
\* last sample.
C11_Witness ==
    /\ pc = "passes_done"
    /\ Len(Emitted) = 2
    /\ log[Len(log)].op = "insert"
    /\ Emitted[1].los < Emitted[2].aos

\* The instants predict_passes scans.
ScanInstants == {start + PASS_STEP * j : j \in 0..(ScanSteps - 1)}

\* C20: the records of one scan neither overlap nor touch (each aos is
\* strictly after the los of the record before); every aos and los is a
\* scanned instant start + 20 k in [start, start + horizon), and every
\* duration_sec is a positive multiple of 20.
C20_PassesDisjointOnGrid ==
    /\ \A k \in 1..Len(Emitted) :
           /\ Emitted[k].aos \in ScanInstants
           /\ Emitted[k].los \in ScanInstants
           /\ Emitted[k].duration_sec > 0
           /\ Emitted[k].duration_sec % PASS_STEP = 0
    /\ \A k \in 1..(Len(Emitted) - 1) : Emitted[k + 1].aos > Emitted[k].los

\* Two records as close as they can be, on a grid that does not start at 0:
\* the second pass began at the sample after the first one's LOS.
C20_Witness ==
    /\ start = 7
    /\ Len(Emitted) = 2
    /\ Emitted[1].aos = start
    /\ Emitted[2].aos = Emitted[1].los + PASS_STEP
    /\ Emitted[2].los = start + PASS_STEP * (ScanSteps - 1)

\* The table the running function writes.
RunTable == log[1].table

\* The running function began by a delete the store accepted.
Cleared == log # << >> /\ log[1].outcome = "ok"

\* An insert of the run failed: the store rejected it, or could not be reached.
FailedInserts == {k \in 1..Len(log) : log[k].op = "insert" /\ log[k].outcome # "ok"}

\* C13: no rollback and no retry. Once the satellite's old rows were cleared,
\* the store holds, at every point of the run and at its end (normal or by an
\* exception), exactly the rows whose inserts the store accepted: no cleared
\* row comes back, and a row whose insert failed is never sent again.
C13_NoRollbackNoRetry ==
    Cleared =>
        /\ RowsOf(db, RunTable) = Accepted(RunTable)
        /\ \A k \in FailedInserts :
               /\ \A j \in 1..Len(RowsOf(db, RunTable)) :
                      RowsOf(db, RunTable)[j] # log[k].row
               /\ \A j \in (k + 1)..Len(log) :
                      log[j].op = "insert" => log[j].row # log[k].row

\* Old rows were cleared, the only insert of the run failed, and the run
\* ended with none of the satellite's rows in the store.
C13_Witness ==
    /\ pc \in {"passes_done", "orbit_done", "raised"}
    /\ Cleared
    /\ RowsOf(prior, RunTable) # << >>
    /\ FailedInserts # {}
    /\ Accepted(RunTable) = << >>
    /\ RowsOf(db, RunTable) = << >>

IsPrefix(s, r) == Len(s) <= Len(r) /\ \A k \in 1..Len(s) : s[k] = r[k]

\* C14: clear-then-repopulate is not atomic. The accepted delete alone is a
\* step after which the satellite's set is empty, whatever it held before, and
\* every later step of the run leaves it as it was or adds the single row just
\* inserted: the set a reader sees between steps is each prefix in turn of the
\* set the run finally produces.
C14_ClearThenRepopulate ==
    [][(log' # << >> /\ log'[1].outcome = "ok") =>
           LET tbl == log'[1].table
               was == RowsOf(db, tbl)
               got == RowsOf(db', tbl)
           IN  IF pc = "startup"
               THEN got = << >>
               ELSE \/ got = was
                    \/ /\ log'[Len(log')].op = "insert"
                       /\ log'[Len(log')].outcome = "ok"
                       /\ got = Append(was, log'[Len(log')].row)]_vars

\* A point inside a run that is reproducing the rows the store held before:
\* a reader sees none of them, or only the first.
C14_Witness ==
    /\ pc \in {"scan", "orbit"}
    /\ Cleared
    /\ Len(RowsOf(prior, RunTable)) = 2
    /\ IsPrefix(RowsOf(db, RunTable), RowsOf(prior, RunTable))
    /\ Len(RowsOf(db, RunTable)) = 1

\* The instants of the propagations of the run whose status was 0, in order.
SuccessfulInstants ==
    LET ok == SelectSeq(Samples, LAMBDA en : en.e = 0)
    IN  [k \in 1..Len(ok) |-> ok[k].t]

\* The timestamps of the rows handed to supabase_insert("orbit_path"), in order.
InsertedTimestamps ==
    [k \in 1..Len(InsertsInto("orbit_path")) |->
        InsertsInto("orbit_path")[k].row.timestamp]

\* generate_orbit_path is over: it returned or an exception left it.
OrbitEnded ==
    /\ log # << >>
    /\ log[1].table = "orbit_path"
    /\ pc \in {"orbit_done", "raised"}

\* C12: a call of generate_orbit_path visits exactly the instants
\* start + 30 k of the window (TrackSteps of them), and inserts one orbit_path
\* record for each instant whose status is 0 and none for the others, in
\* increasing timestamp order.
C12_OrbitVisitsWholeWindow ==
    OrbitEnded =>
        /\ Len(Samples) = TrackSteps
        /\ \A j \in 1..Len(Samples) : Samples[j].t = start + TRACK_STEP * (j - 1)
        /\ InsertedTimestamps = SuccessfulInstants

\* predict_passes is over: it returned or an exception left it.
ScanEnded ==
    /\ log # << >>
    /\ log[1].table = "passes"
    /\ pc \in {"passes_done", "raised"}

\* C18: a call of predict_passes ends after exactly horizon / step iterations
\* (ScanSteps of them), one per instant start + 20 k of the window, whatever
\* the propagator statuses.
C18_ScanRunsWholeWindow ==
    ScanEnded =>
        /\ Len(Samples) = ScanSteps
        /\ \A j \in 1..Len(Samples) : Samples[j].t = start + PASS_STEP * (j - 1)

\* C15: elevation_angle never raises: for every position, the station's
\* zenith line with the station above the reference radius and the station's
\* own position included, the call returns, with the inverse-sine argument
\* inside [-1, 1].
C15_ElevationNeverRaises ==
    /\ geo.st # "raised"
    /\ geo.st = "returned" =>
           geo.res.dot * geo.res.dot
               <= geo.res.range2 * EARTH_RADIUS * EARTH_RADIUS

\* The store calls the step made for live updates.
NewLiveCalls == SubSeq(live'.calls, Len(live.calls) + 1, Len(live'.calls))

\* The call of update_live_state the step made.
LastUpdate == live'.hist[Len(live'.hist)]

\* C19: a call of update_live_state makes exactly one store call, an insert
\* of one satellite_state record of its satellite, when the propagator status
\* is 0, and no store call and no exception when it is not; it never deletes
\* and never writes orbit_path or passes, so whichever thread makes the call
\* and in whatever order, orbit_path and passes stay as they were and
\* satellite_state only grows.
C19_LiveUpdateFrame ==
    [][Len(live'.hist) = Len(live.hist) + 1 =>
           /\ IF LastUpdate.e = 0
              THEN /\ Len(NewLiveCalls) = 1
                   /\ NewLiveCalls[1].op = "insert"
                   /\ NewLiveCalls[1].table = "satellite_state"
                   /\ NewLiveCalls[1].row.satellite_id = LastUpdate.sid
                   /\ NewLiveCalls[1].outcome = "ok"
                          => db'.satellite_state =
                                 Append(db.satellite_state, NewLiveCalls[1].row)
              ELSE /\ NewLiveCalls = << >>
                   /\ ~LastUpdate.raised
                   /\ db' = db
           /\ \A k \in 1..Len(live'.calls) : live'.calls[k].op # "delete"
           /\ db'.orbit_path = db.orbit_path
           /\ db'.passes = db.passes
           /\ IsPrefix(db.satellite_state, db'.satellite_state)]_vars

\* The loop thread and a manual request have both inserted a record, a
\* propagation failed in between, and the store holds startup's rows.
C19_Witness ==
    /\ Len(live.hist) = 3
    /\ live.hist[1].by = "auto" /\ live.hist[1].e = 0
    /\ live.hist[2].by = "man" /\ live.hist[2].e # 0
    /\ live.hist[3].by = "man" /\ live.hist[3].e = 0
    /\ Len(db.satellite_state) = 2
    /\ db.passes # << >>
    /\ db.orbit_path # << >>

\* The rows a call log shows handed to supabase_insert, in order.
RecordsOf(l) ==
    LET ins == SelectSeq(l, LAMBDA en : en.op = "insert")
    IN  [k \in 1..Len(ins) |-> ins[k].row]

\* The second run is over: it returned or an exception left it.
SecondEnded ==
    first.n = 1 /\ pc \in {"orbit_done", "passes_done", "raised"}

\* C16: a second run of predict_passes (of generate_orbit_path) for the same
\* satellite, from the same start instant and with the same propagator
\* results, produces the sequence of records the first produced, and leaves
\* the store as the first run left it.
C16_SecondRunSame ==
    SecondEnded =>
        /\ RecordsOf(log) = RecordsOf(first.log)
        /\ db = first.db

\* The PassRecords predict_passes emits for satellite sid when it scans the
\* samples smp[k], smp[k + 1], ... by itself, entering sample k with the
\* locals ip (in_pass), a (aos) and m (max_el).
RECURSIVE PassesAlone(_, _, _, _, _, _)
PassesAlone(sid, smp, k, ip, a, m) ==
    IF k > Len(smp) THEN << >>
    ELSE LET s == smp[k]
             br == IF s.dom THEN ScanBranch(s.e, s.el, ip) ELSE "skip"
         IN  IF br = "enter"
             THEN PassesAlone(sid, smp, k + 1, TRUE, s.t, MaxOnEntry(m, s.el))
             ELSE IF br = "stay"
             THEN PassesAlone(sid, smp, k + 1, TRUE, a, MaxInPass(m, s.el))
             ELSE IF br = "exit"
             THEN <<PassRow(sid, a, s.t, m)>>
                      \o PassesAlone(sid, smp, k + 1, FALSE, a, m)
             ELSE PassesAlone(sid, smp, k + 1, ip, a, m)

\* The orbit_path records generate_orbit_path emits for satellite sid when it
\* propagates the samples smp by itself.
OrbitAlone(sid, smp) ==
    LET ok == SelectSeq(smp, LAMBDA en : en.e = 0)
    IN  [k \in 1..Len(ok) |-> OrbitRow(sid, ok[k].fix, ok[k].t)]

\* The rows of satellite sid in a table of store d.
RowsOfSat(d, tbl, sid) == SelectSeq(d[tbl], LAMBDA row : row.satellite_id = sid)

\* The rows of a call log the store accepted.
AcceptedOf(l) ==
    LET ok == SelectSeq(l, LAMBDA en : en.op = "insert" /\ en.outcome = "ok")
    IN  [k \in 1..Len(ok) |-> ok[k].row]

\* Call c (the running one or the waiting one) is as if it ran alone: its
\* records are those its own samples give and carry its satellite's id, and
\* the store holds of its satellite what it held when the call began, minus
\* what the call's own delete removed, plus what the call's own inserts added.
AsAlone(c) ==
    /\ \A tbl \in {"passes", "orbit_path"} :
           RowsOfSat(db, tbl, c.sat) =
               IF c.log # << >> /\ c.log[1].table = tbl
               THEN (IF c.log[1].outcome = "ok" THEN << >>
                     ELSE RowsOfSat(c.prior, tbl, c.sat)) \o AcceptedOf(c.log)
               ELSE RowsOfSat(c.prior, tbl, c.sat)
    /\ c.log # << >> =>
           /\ RecordsOf(c.log) =
                  IF c.log[1].table = "passes"
                  THEN PassesAlone(c.sat, SamplesOf(c.log), 1, FALSE, None, 0)
                  ELSE OrbitAlone(c.sat, SamplesOf(c.log))
           /\ \A k \in 1..Len(RecordsOf(c.log)) :
                  RecordsOf(c.log)[k].satellite_id = c.sat

====
